---------------------------- MODULE Spec2Model ----------------------------
(***************************************************************************)
(* Model of builtin/logical/pki/path_config_urls.go: the handlers of the   *)
(* PKI backend's "config/urls" path (pathReadURL, pathWriteURL) and the    *)
(* helpers they call (validateURLs, getURLs, writeURLs), over a storage    *)
(* that holds at most one entry, under the key "urls".                     *)
(*                                                                         *)
(* A string is a sequence of one-character strings.  Two specifications:   *)
(*   Spec      one caller; each handler call is one step.                  *)
(*   ConcSpec  several callers; a step is one storage operation (Get or    *)
(*             Put) together with the handler code around it.              *)
(***************************************************************************)
EXTENDS Naturals, Sequences, FiniteSets

(***************************************************************************)
(* Bounds of the model.                                                    *)
(***************************************************************************)
\* Largest total number of characters in the field values of one request.
MaxReqLen == 2
\* The same, for the requests of ConcSpec.
MaxConcReqLen == 1
\* Number of concurrent callers in ConcSpec.
NumProcs == 2
\* Number of pathWriteURL calls started in a behaviour of ConcSpec.
MaxWrites == 2

\* "a" stands for a letter, ":" is the scheme delimiter, "," the separator.
Alphabet == {"a", ":", ","}

Strings == UNION {[1..k -> Alphabet] : k \in 0..MaxReqLen}

\* The keys of the path's field schema (lines 17-33).
FieldKeys == {"issuing_certificates", "crl_distribution_points", "ocsp_servers"}

RECURSIVE TotalLen(_)
TotalLen(d) ==
  IF DOMAIN d = {} THEN 0
  ELSE LET k == CHOOSE x \in DOMAIN d : TRUE
       IN Len(d[k]) + TotalLen([x \in (DOMAIN d) \ {k} |-> d[x]])

\* The raw data of a request: a map from the keys the caller sent to strings.
Requests ==
  UNION {{d \in [S -> Strings] : TotalLen(d) <= MaxReqLen} : S \in SUBSET FieldKeys}

ConcRequests == {d \in Requests : TotalLen(d) <= MaxConcReqLen}

\* Field values with blanks: " " stands for a whitespace character.  No string
\* over this alphabet holds a colon, so url.Parse accepts every token of it.
SpaceAlphabet == {"a", " ", ","}

SpaceStrings == UNION {[1..k -> SpaceAlphabet] : k \in 0..MaxReqLen}

SpaceRequests ==
  UNION {{d \in [S -> SpaceStrings] : TotalLen(d) <= MaxReqLen} :
           S \in SUBSET FieldKeys}

\* framework.FieldData.GetOk for a TypeString field: ok iff the key was sent.
GetOk(data, k) == k \in DOMAIN data

(***************************************************************************)
(* strings.Split(s, ","): the substrings between the commas, in order; a   *)
(* string without a comma (the empty string too) gives one element.        *)
(***************************************************************************)
IndexComma(s) ==
  IF \E i \in 1..Len(s) : s[i] = ","
  THEN CHOOSE i \in 1..Len(s) : s[i] = "," /\ \A j \in 1..(i-1) : s[j] # ","
  ELSE 0

\* Faulty variant of Split: splits at the first comma only.
Split_FirstOnly(s) ==
  LET i == IndexComma(s)
  IN IF i = 0 THEN <<s>> ELSE <<SubSeq(s, 1, i-1), SubSeq(s, i+1, Len(s))>>

RECURSIVE Split(_)
Split(s) ==
  LET i == IndexComma(s)
  IN IF i = 0 THEN <<s>>
     ELSE <<SubSeq(s, 1, i-1)>> \o Split(SubSeq(s, i+1, Len(s)))

(***************************************************************************)
(* url.Parse(curr) returning an error.  Over the alphabet, the one error   *)
(* of net/url is getscheme's "missing protocol scheme": a colon as the     *)
(* first character.  The empty string, a path of letters and a scheme      *)
(* followed by an opaque part all parse.                                   *)
(***************************************************************************)
ParseErr(curr) == Len(curr) > 0 /\ curr[1] = ":"

\* validateURLs: the first element, in order, that fails to parse.
validateURLs(urls) ==
  IF \E i \in 1..Len(urls) : ParseErr(urls[i])
  THEN LET i == CHOOSE i \in 1..Len(urls) :
                  ParseErr(urls[i]) /\ \A j \in 1..(i-1) : ~ParseErr(urls[j])
       IN [badUrl |-> urls[i], err |-> TRUE]
  ELSE [badUrl |-> <<>>, err |-> FALSE]

(***************************************************************************)
(* urlEntries and its JSON / structs tags (lines 149-153).                 *)
(***************************************************************************)
EncodeJSON(e) ==
  [issuing_certificates    |-> e.IssuingCertificates,
   crl_distribution_points |-> e.CRLDistributionPoints,
   ocsp_servers            |-> e.OCSPServers]

DecodeJSON(v) ==
  [IssuingCertificates   |-> v.issuing_certificates,
   CRLDistributionPoints |-> v.crl_distribution_points,
   OCSPServers           |-> v.ocsp_servers]

\* structs.New(entries).Map()
StructsMap(e) ==
  [issuing_certificates    |-> e.IssuingCertificates,
   crl_distribution_points |-> e.CRLDistributionPoints,
   ocsp_servers            |-> e.OCSPServers]

\* The urlEntries literal of lines 114-118.
DefaultEntries ==
  [IssuingCertificates |-> <<>>, CRLDistributionPoints |-> <<>>, OCSPServers |-> <<>>]

(***************************************************************************)
(* The storage is a set of entries, at most one per key.  A nil pointer is *)
(* the empty set, a non-nil one a singleton.                               *)
(***************************************************************************)
StorageGet(st, key) == {e \in st : e.Key = key}

StoragePut(st, entry) == {e \in st : e.Key # entry.Key} \cup {entry}

\* Faulty variant of getURLs: a missing entry is reported as an error.
getURLs_MissingIsError(st, getFails) ==
  LET entry == StorageGet(st, "urls")
  IN IF getFails \/ entry = {} THEN [entries |-> {}, err |-> "Get"]
     ELSE [entries |-> {DecodeJSON(e.Value) : e \in entry}, err |-> ""]

\* getURLs; getFails: req.Storage.Get returns an error.
getURLs(st, getFails) ==
  LET entry == StorageGet(st, "urls")
  IN IF getFails THEN [entries |-> {}, err |-> "Get"]
     ELSE IF entry = {} THEN [entries |-> {}, err |-> ""]
     ELSE [entries |-> {DecodeJSON(e.Value) : e \in entry}, err |-> ""]

\* Faulty variant of writeURLs: the entry is stored although Put reports an error.
writeURLs_StoresOnError(st, entries, putFails) ==
  LET entry == [Key |-> "urls", Value |-> EncodeJSON(entries)]
  IN [storage |-> StoragePut(st, entry), err |-> IF putFails THEN "Put" ELSE ""]

\* writeURLs; putFails: req.Storage.Put returns an error.  The new storage.
\* Faulty variant of writeURLs: a record whose three lists are empty is removed.
writeURLs_DropsEmpty(st, entries, putFails) ==
  IF putFails THEN [storage |-> st, err |-> "Put"]
  ELSE IF entries = DefaultEntries
       THEN [storage |-> {e \in st : e.Key # "urls"}, err |-> ""]
       ELSE [storage |-> StoragePut(st, [Key |-> "urls", Value |-> EncodeJSON(entries)]),
             err |-> ""]

writeURLs(st, entries, putFails) ==
  LET entry == [Key |-> "urls", Value |-> EncodeJSON(entries)]
  IN IF putFails THEN [storage |-> st, err |-> "Put"]
     ELSE [storage |-> StoragePut(st, entry), err |-> ""]

(***************************************************************************)
(* What a handler returns, a pair of a logical.Response pointer and an     *)
(* error:                                                                  *)
(*   kind "nil"            (nil, nil)                                      *)
(*   kind "err"            (nil, err); err is the error the storage        *)
(*                         operation returned, named after the operation   *)
(*   kind "error_response" (logical.ErrorResponse(..), nil) ; field and    *)
(*                         url are the two variable parts of the message   *)
(*   kind "data"           (a Response holding Data, nil)                  *)
(***************************************************************************)
RetNil == [kind |-> "nil", err |-> "", field |-> "", url |-> <<>>, Data |-> {}]

RetErr(err) == [kind |-> "err", err |-> err, field |-> "", url |-> <<>>, Data |-> {}]

ErrorResponse(field, badUrl) ==
  [kind |-> "error_response", err |-> "", field |-> field, url |-> badUrl, Data |-> {}]

RetData(m) == [kind |-> "data", err |-> "", field |-> "", url |-> <<>>, Data |-> {m}]

\* pathReadURL.
pathReadURL(st, getFails) ==
  LET got == getURLs(st, getFails)
  IN IF got.err # "" THEN RetErr(got.err)
     ELSE IF got.entries = {} THEN RetNil
     ELSE RetData(StructsMap(CHOOSE e \in got.entries : TRUE))

(***************************************************************************)
(* The parts of pathWriteURL after getURLs returned without error.         *)
(***************************************************************************)
\* Faulty variant of StartEntries: the handler always starts from the empty lists.
StartEntries_AlwaysDefault(got) == DefaultEntries

\* strings.Split(s, ",") for the strings of the model, tabulated.
SplitOf == [s \in Strings \cup SpaceStrings |-> Split(s)]

\* Lines 113-119: the entries the handler works on.
StartEntries(got) == IF got = {} THEN DefaultEntries ELSE CHOOSE e \in got : TRUE

\* Faulty variant of Assign: the split list is appended to the field.
Assign_Append(old, splitURLs) == old \o splitURLs

\* Faulty variant of Assign: a list of one empty string is stored as the empty list.
Assign_EmptyAsNone(old, splitURLs) ==
  IF splitURLs = << <<>> >> THEN <<>> ELSE splitURLs

\* Lines 123, 131, 139: the assignment of the split list to the field.
Assign(old, splitURLs) == splitURLs

\* Faulty variant of Validated: each branch validates the list it has just set.
Validated_OwnField(e, key) ==
  CASE key = "issuing_certificates" -> e.IssuingCertificates
    [] key = "crl_distribution_points" -> e.CRLDistributionPoints
    [] key = "ocsp_servers" -> e.OCSPServers

\* Lines 124, 132, 140: the list each branch hands to validateURLs.
Validated(e, key) == e.CRLDistributionPoints

(***************************************************************************)
(* pathWriteURL after getURLs returned without error (lines 113-146):      *)
(* got is the pointer getURLs returned.  Gives what the handler returns,   *)
(* whether it reaches writeURLs, and the entries it passes to it.          *)
(***************************************************************************)
MergeFields(got, d) ==
  LET e0 == StartEntries(got)
      e1 == IF GetOk(d, "issuing_certificates")
            THEN [e0 EXCEPT !.IssuingCertificates =
                    Assign(@, SplitOf[d["issuing_certificates"]])]
            ELSE e0
      v1 == validateURLs(Validated(e1, "issuing_certificates"))
      e2 == IF GetOk(d, "crl_distribution_points")
            THEN [e1 EXCEPT !.CRLDistributionPoints =
                    Assign(@, SplitOf[d["crl_distribution_points"]])]
            ELSE e1
      v2 == validateURLs(Validated(e2, "crl_distribution_points"))
      e3 == IF GetOk(d, "ocsp_servers")
            THEN [e2 EXCEPT !.OCSPServers = Assign(@, SplitOf[d["ocsp_servers"]])]
            ELSE e2
      v3 == validateURLs(Validated(e3, "ocsp_servers"))
  IN IF GetOk(d, "issuing_certificates") /\ v1.err
     THEN [ret |-> ErrorResponse("issuing certificates", v1.badUrl),
           save |-> FALSE, entries |-> e1]
     ELSE IF GetOk(d, "crl_distribution_points") /\ v2.err
     THEN [ret |-> ErrorResponse("CRL distribution points", v2.badUrl),
           save |-> FALSE, entries |-> e2]
     ELSE IF GetOk(d, "ocsp_servers") /\ v3.err
     THEN [ret |-> ErrorResponse("OCSP servers", v3.badUrl),
           save |-> FALSE, entries |-> e3]
     ELSE [ret |-> RetNil, save |-> TRUE, entries |-> e3]

(***************************************************************************)
(* A call makes at most two storage operations, Get and then Put, and      *)
(* returns at the first that fails: "get" and "put" name the operation     *)
(* that returns an error during the call, "none" that none does.  A        *)
(* DecodeJSON error takes the same return as a Get error (lines 66-68).    *)
(***************************************************************************)
Faults == {"none", "get", "put"}

\* pathWriteURL as a function of the storage, the request and the fault: the
\* value returned and the storage it leaves.
pathWriteURL(st, d, fault) ==
  LET got == getURLs(st, fault = "get")
  IN IF got.err # "" THEN [ret |-> RetErr(got.err), storage |-> st]
     ELSE LET m == MergeFields(got.entries, d)
          IN IF ~m.save THEN [ret |-> m.ret, storage |-> st]
             ELSE LET w == writeURLs(st, m.entries, fault = "put")
                  IN [ret |-> IF w.err # "" THEN RetErr(w.err) ELSE RetNil,
                      storage |-> w.storage]

(***************************************************************************)
(* State.                                                                  *)
(***************************************************************************)
Procs == 1..NumProcs

VARIABLES
  store,    \* the storage: a set of entries
  last,     \* Spec: the call that returned last, [op, ret]
  pc,       \* ConcSpec: per caller, "idle" or "loaded" (between Get and Put)
  loaded,   \* ConcSpec: per caller, the pointer its getURLs returned
  data,     \* ConcSpec: per caller, the request data of its call
  result,   \* ConcSpec: per caller, what its last call returned, [op, ret]
  writes,   \* ConcSpec: number of pathWriteURL calls started
  ops,      \* ConcSpec: per caller, the storage operations its current or
            \* last call has issued, in order
  fresh     \* ConcSpec: the callers whose last call was a read that returned
            \* without error and since which no Put has stored anything

vars == <<store, last, pc, loaded, data, result, writes, ops, fresh>>

concVars == <<pc, loaded, data, result, writes, ops, fresh>>

NoCall == [op |-> "none", ret |-> RetNil]

NoData == [k \in {} |-> <<>>]

Init ==
  /\ store = {}
  /\ last = NoCall
  /\ pc = [p \in Procs |-> "idle"]
  /\ loaded = [p \in Procs |-> {}]
  /\ data = [p \in Procs |-> NoData]
  /\ result = [p \in Procs |-> NoCall]
  /\ writes = 0
  /\ ops = [p \in Procs |-> <<>>]
  /\ fresh = {}

(***************************************************************************)
(* Spec: one caller, a handler call is one step.                           *)
(***************************************************************************)
Read ==
  /\ \E getFails \in BOOLEAN :
       last' = [op |-> "read", ret |-> pathReadURL(store, getFails)]
  /\ UNCHANGED <<store, concVars>>

\* pathWriteURL, with each fault drawn at the storage operation it hits and
\* the request, one of reqs, drawn where the handler first looks at it
\* (line 121).
WriteOf(reqs) ==
  /\ \E getFails \in BOOLEAN :
       LET got == getURLs(store, getFails)
       IN IF got.err # ""
          THEN /\ last' = [op |-> "write", ret |-> RetErr(got.err)]
               /\ UNCHANGED store
          ELSE \E d \in reqs :
                 LET m == MergeFields(got.entries, d)
                 IN IF ~m.save
                    THEN /\ last' = [op |-> "write", ret |-> m.ret]
                         /\ UNCHANGED store
                    ELSE \E putFails \in BOOLEAN :
                           LET w == writeURLs(store, m.entries, putFails)
                           IN /\ store' = w.storage
                              /\ last' = [op |-> "write",
                                          ret |-> IF w.err # "" THEN RetErr(w.err)
                                                  ELSE RetNil]
  /\ UNCHANGED concVars

Write == WriteOf(Requests)

Next == Read \/ Write

Spec == Init /\ [][Next]_vars

\* The same caller, sending field values with blanks.
SpaceNext == Read \/ WriteOf(SpaceRequests)

SpaceSpec == Init /\ [][SpaceNext]_vars

(***************************************************************************)
(* ConcSpec: NumProcs callers.  No lock is taken anywhere in the file, so  *)
(* the storage operations of different calls interleave freely.  A read    *)
(* call makes one storage operation and is one step; a write call is two   *)
(* steps, one ending after its Get and one from there to its return.       *)
(***************************************************************************)
\* Faulty variant of CRead: a read that finds no record stores the empty one.
CRead_CreatesOnMiss(p) ==
  /\ pc[p] = "idle"
  /\ \E getFails \in BOOLEAN :
       LET ret == pathReadURL(store, getFails)
       IN /\ result' = [result EXCEPT ![p] = [op |-> "read", ret |-> ret]]
          /\ fresh' = IF ret.kind = "err" THEN fresh \ {p} ELSE fresh \cup {p}
          /\ store' = IF ret = RetNil
                      THEN writeURLs(store, DefaultEntries, FALSE).storage
                      ELSE store
  /\ ops' = [ops EXCEPT ![p] = <<"Get">>]
  /\ UNCHANGED <<last, pc, loaded, data, writes>>

CRead(p) ==
  /\ pc[p] = "idle"
  /\ \E getFails \in BOOLEAN :
       LET ret == pathReadURL(store, getFails)
       IN /\ result' = [result EXCEPT ![p] = [op |-> "read", ret |-> ret]]
          /\ fresh' = IF ret.kind = "err" THEN fresh \ {p} ELSE fresh \cup {p}
  /\ ops' = [ops EXCEPT ![p] = <<"Get">>]
  /\ UNCHANGED <<store, last, pc, loaded, data, writes>>

\* pathWriteURL lines 109-112: the call starts with a request of reqs, getURLs
\* runs.
WriteGetOf(p, reqs) ==
  /\ pc[p] = "idle"
  /\ writes < MaxWrites
  /\ writes' = writes + 1
  /\ ops' = [ops EXCEPT ![p] = <<"Get">>]
  /\ fresh' = fresh \ {p}
  /\ \E d \in reqs, getFails \in BOOLEAN :
       LET got == getURLs(store, getFails)
       IN /\ data' = [data EXCEPT ![p] = d]
          /\ IF got.err # ""
             THEN /\ result' = [result EXCEPT ![p] =
                                 [op |-> "write", ret |-> RetErr(got.err)]]
                  /\ UNCHANGED <<pc, loaded>>
             ELSE /\ pc' = [pc EXCEPT ![p] = "loaded"]
                  /\ loaded' = [loaded EXCEPT ![p] = got.entries]
                  /\ UNCHANGED result
  /\ UNCHANGED <<store, last>>

WriteGet(p) == WriteGetOf(p, ConcRequests)

\* Faulty variant of WritePut: the merge starts from the storage as it is at the Put.
WritePut_Reload(p) ==
  /\ pc[p] = "loaded"
  /\ LET m == MergeFields(getURLs(store, FALSE).entries, data[p])
     IN IF ~m.save
        THEN /\ result' = [result EXCEPT ![p] = [op |-> "write", ret |-> m.ret]]
             /\ UNCHANGED <<store, ops, fresh>>
        ELSE \E putFails \in BOOLEAN :
               LET w == writeURLs(store, m.entries, putFails)
               IN /\ store' = w.storage
                  /\ ops' = [ops EXCEPT ![p] = Append(@, "Put")]
                  /\ fresh' = IF w.err # "" THEN fresh ELSE {}
                  /\ result' = [result EXCEPT ![p] =
                       [op |-> "write",
                        ret |-> IF w.err # "" THEN RetErr(w.err) ELSE RetNil]]
  /\ pc' = [pc EXCEPT ![p] = "idle"]
  /\ loaded' = [loaded EXCEPT ![p] = {}]
  /\ UNCHANGED <<last, data, writes>>

\* Faulty variant of WritePut: the call waits while another write call is
\* between its Get and its return.
WritePut_Waits(p) ==
  /\ \A q \in Procs \ {p} : pc[q] # "loaded"
  /\ pc[p] = "loaded"
  /\ LET m == MergeFields(loaded[p], data[p])
     IN IF ~m.save
        THEN /\ result' = [result EXCEPT ![p] = [op |-> "write", ret |-> m.ret]]
             /\ UNCHANGED <<store, ops, fresh>>
        ELSE \E putFails \in BOOLEAN :
               LET w == writeURLs(store, m.entries, putFails)
               IN /\ store' = w.storage
                  /\ ops' = [ops EXCEPT ![p] = Append(@, "Put")]
                  /\ fresh' = IF w.err # "" THEN fresh ELSE {}
                  /\ result' = [result EXCEPT ![p] =
                       [op |-> "write",
                        ret |-> IF w.err # "" THEN RetErr(w.err) ELSE RetNil]]
  /\ pc' = [pc EXCEPT ![p] = "idle"]
  /\ loaded' = [loaded EXCEPT ![p] = {}]
  /\ UNCHANGED <<last, data, writes>>

\* pathWriteURL lines 113-146: merge, validate, writeURLs, return.
WritePut(p) ==
  /\ pc[p] = "loaded"
  /\ LET m == MergeFields(loaded[p], data[p])
     IN IF ~m.save
        THEN /\ result' = [result EXCEPT ![p] = [op |-> "write", ret |-> m.ret]]
             /\ UNCHANGED <<store, ops, fresh>>
        ELSE \E putFails \in BOOLEAN :
               LET w == writeURLs(store, m.entries, putFails)
               IN /\ store' = w.storage
                  /\ ops' = [ops EXCEPT ![p] = Append(@, "Put")]
                  /\ fresh' = IF w.err # "" THEN fresh ELSE {}
                  /\ result' = [result EXCEPT ![p] =
                       [op |-> "write",
                        ret |-> IF w.err # "" THEN RetErr(w.err) ELSE RetNil]]
  /\ pc' = [pc EXCEPT ![p] = "idle"]
  /\ loaded' = [loaded EXCEPT ![p] = {}]
  /\ UNCHANGED <<last, data, writes>>

ConcNext == \E p \in Procs : CRead(p) \/ WriteGet(p) \/ WritePut(p)

ConcSpec == Init /\ [][ConcNext]_vars

\* A handler that has been called keeps running: the server runs each request
\* in its own goroutine and the file takes no lock, so a write call that has
\* its Get behind it goes on to its return.
\* Which storage operations a call issues and whether it returns depend on
\* the request only through the outcome of validateURLs, and every call of
\* validateURLs in the file is given the CRL list (lines 124, 132, 140): the
\* requests of the fair specification set that field or none.
CRLRequests == {d \in ConcRequests : DOMAIN d \subseteq {"crl_distribution_points"}}

FairNext ==
  \E p \in Procs : CRead(p) \/ WriteGetOf(p, CRLRequests) \/ WritePut(p)

FairConcSpec ==
  Init /\ [][FairNext]_vars /\ \A p \in Procs : WF_vars(WritePut(p))

(***************************************************************************)
(* Vocabulary of the properties.                                           *)
(***************************************************************************)
\* The steps of ConcSpec in which caller p's write call returns after its Get.
Returns(p) == pc[p] = "loaded" /\ pc'[p] = "idle"

\* A list holds an element that fails URL parsing.
HasBad(urls) == \E i \in 1..Len(urls) : ParseErr(urls[i])

\* The first element of a list, in list order, that fails URL parsing.
FirstBad(urls) ==
  urls[CHOOSE i \in 1..Len(urls) :
         ParseErr(urls[i]) /\ \A j \in 1..(i-1) : ~ParseErr(urls[j])]

\* The new list of some field the request specifies holds a bad element.
BadRequest(d) == \E k \in DOMAIN d : HasBad(Split(d[k]))

\* The name the error message gives to a field.
FieldName(k) ==
  CASE k = "issuing_certificates" -> "issuing certificates"
    [] k = "crl_distribution_points" -> "CRL distribution points"
    [] k = "ocsp_servers" -> "OCSP servers"

\* The order in which pathWriteURL handles the fields.
FieldOrder == <<"issuing_certificates", "crl_distribution_points", "ocsp_servers">>

\* The stored record's list for key k; the empty list while nothing is stored.
Field(st, k) == IF st = {} THEN <<>> ELSE (CHOOSE e \in st : TRUE).Value[k]

WriteOK == [op |-> "write", ret |-> RetNil]

(***************************************************************************)
(* C1: a write whose request gives some specified field a list with an     *)
(* element that fails URL parsing returns a validation error and leaves    *)
(* the storage as it was.                                                  *)
(***************************************************************************)
C1_BadRequestRejected ==
  [][\A p \in Procs :
       (Returns(p) /\ BadRequest(data[p]))
         => (result'[p].ret.kind = "error_response" /\ store' = store)]_vars

(***************************************************************************)
(* C2: each specified field validates its own new list: the first field,   *)
(* in handling order, whose new list holds a bad element is the field the  *)
(* error response names, with the first bad element of that list.          *)
(***************************************************************************)
C2_OwnListValidated ==
  [][\A p \in Procs : \A i \in 1..3 :
       (/\ Returns(p)
        /\ FieldOrder[i] \in DOMAIN data[p]
        /\ HasBad(Split(data[p][FieldOrder[i]]))
        /\ \A j \in 1..(i-1) :
             FieldOrder[j] \in DOMAIN data[p] => ~HasBad(Split(data[p][FieldOrder[j]])))
         => result'[p].ret =
              ErrorResponse(FieldName(FieldOrder[i]),
                            FirstBad(Split(data[p][FieldOrder[i]])))]_vars

(***************************************************************************)
(* C3: every element of every list of the stored record parses as a URL.   *)
(***************************************************************************)
C3_StoredURLsParse == \A k \in FieldKeys : ~HasBad(Field(store, k))

(***************************************************************************)
(* C4: a write that succeeds leaves every field its request does not       *)
(* specify as it was stored before the write, or empty when nothing was    *)
(* stored; checked for every request on every reachable storage.           *)
(***************************************************************************)
C4_PartialUpdate ==
  \A d \in Requests :
    LET r == pathWriteURL(store, d, "none")
    IN r.ret = RetNil =>
         /\ r.storage # {}
         /\ \A k \in FieldKeys \ DOMAIN d : Field(r.storage, k) = Field(store, k)

\* Two fields hold values whose lengths exceed one request together, so that
\* the write that returned last left an earlier write's field in place, and
\* the third field, never written, is empty.
WitnessC4 ==
  /\ last = WriteOK
  /\ Field(store, "issuing_certificates") = <<<<"a">>, <<>>>>
  /\ Field(store, "ocsp_servers") = <<<<"a">>>>
  /\ Field(store, "crl_distribution_points") = <<>>

(***************************************************************************)
(* C5: writing one field with an input whose tokens all parse, then        *)
(* reading, returns for that field the comma-separated tokens of the       *)
(* input, in order (joined by commas they give the input back and none     *)
(* holds a comma), and for the two other fields what was stored before.    *)
(***************************************************************************)
RECURSIVE Join(_)
Join(l) ==
  IF Len(l) = 0 THEN <<>>
  ELSE IF Len(l) = 1 THEN l[1]
  ELSE l[1] \o <<",">> \o Join(Tail(l))

IsTokenList(l, s) ==
  /\ Len(l) >= 1
  /\ Join(l) = s
  /\ \A i \in 1..Len(l) : \A j \in 1..Len(l[i]) : l[i][j] # ","

C5_RoundTrip ==
  \A k \in FieldKeys : \A s \in Strings :
    LET d == [x \in {k} |-> s]
        w == pathWriteURL(store, d, "none")
        r == pathReadURL(w.storage, FALSE)
    IN (~BadRequest(d) /\ w.ret = RetNil) =>
         /\ r.kind = "data"
         /\ \A m \in r.Data :
              /\ IsTokenList(m[k], s)
              /\ \A o \in FieldKeys \ {k} : m[o] = Field(store, o)

\* A read returned the two tokens of "a," in input order.
WitnessC5 ==
  /\ last.op = "read"
  /\ last.ret.kind = "data"
  /\ \A m \in last.ret.Data : m["issuing_certificates"] = <<<<"a">>, <<>>>>

(***************************************************************************)
(* C7: a read while nothing is stored returns the empty result and no      *)
(* error; getURLs on an empty storage reports no entries and no error; a   *)
(* read returns an error exactly when the storage Get fails.               *)
(***************************************************************************)
C7_FirstRead ==
  /\ (last.op = "read" /\ store = {}) => last.ret \in {RetNil, RetErr("Get")}
  /\ (last.op = "read" /\ store # {}) => last.ret.kind \in {"data", "err"}
  /\ store = {} => /\ getURLs(store, FALSE) = [entries |-> {}, err |-> ""]
                   /\ pathReadURL(store, FALSE) = RetNil
  /\ \A getFails \in BOOLEAN :
       (pathReadURL(store, getFails).kind = "err") <=> getFails

WitnessC7 == last = [op |-> "read", ret |-> RetNil] /\ store = {}

(***************************************************************************)
(* C8: a request without a bad element succeeds, and executing a request  *)
(* that succeeds a second time, right after the first, succeeds again and  *)
(* leaves the storage the first execution left.                            *)
(***************************************************************************)
C8_Idempotent ==
  \A d \in Requests :
    LET w1 == pathWriteURL(store, d, "none")
        w2 == pathWriteURL(w1.storage, d, "none")
    IN /\ ~BadRequest(d) => w1.ret = RetNil
       /\ w1.ret = RetNil => (w2.ret = RetNil /\ w2.storage = w1.storage)

\* The storage holds a two-element list left by a write that succeeded, and
\* executing the request of that list again leaves it as it is.
WitnessC8 ==
  /\ last = WriteOK
  /\ Field(store, "ocsp_servers") = <<<<>>, <<"a">>>>
  /\ pathWriteURL(store, [x \in {"ocsp_servers"} |-> <<",", "a">>], "none").storage = store

(***************************************************************************)
(* C9: a request that gives a field the empty string, and gives no field   *)
(* a bad element, succeeds, and the field then reads back as the list of   *)
(* one empty string, whatever it held; a field that a request omits keeps  *)
(* the value stored for it.                                                *)
(***************************************************************************)
C9_ClearSemantics ==
  \A d \in Requests :
    LET w == pathWriteURL(store, d, "none")
        r == pathReadURL(w.storage, FALSE)
    IN /\ \A k \in DOMAIN d :
            (d[k] = <<>> /\ ~BadRequest(d)) =>
               /\ w.ret = RetNil
               /\ r.kind = "data"
               /\ \A m \in r.Data : m[k] = << <<>> >>
       /\ \A k \in FieldKeys \ DOMAIN d : Field(w.storage, k) = Field(store, k)

\* A read returned a CRL list of one empty string next to a non-empty list.
WitnessC9 ==
  /\ last.op = "read"
  /\ last.ret.kind = "data"
  /\ \A m \in last.ret.Data :
       /\ m["crl_distribution_points"] = << <<>> >>
       /\ m["issuing_certificates"] = <<<<"a", "a">>>>

(***************************************************************************)
(* C6: in ConcSpec a write that succeeds stores, for every field its       *)
(* request does not specify, the value its own getURLs returned (empty     *)
(* when it found nothing), whatever the storage holds when it saves: the   *)
(* save of a call that loaded before another call's save drops that        *)
(* call's update.                                                          *)
(***************************************************************************)
LoadedField(got, k) ==
  IF got = {} THEN <<>> ELSE EncodeJSON(CHOOSE e \in got : TRUE)[k]

C6_SaveWritesLoaded ==
  [][\A p \in Procs :
       (Returns(p) /\ result'[p] = WriteOK)
         => \A k \in FieldKeys \ DOMAIN data[p] :
              Field(store', k) = LoadedField(loaded[p], k)]_vars

\* The storage two requests leave when executed one after the other.
Serial(d1, d2) ==
  pathWriteURL(pathWriteURL({}, d1, "none").storage, d2, "none").storage

\* The only two write calls of the behaviour: caller 1 wrote only
\* issuing_certificates, caller 2 only ocsp_servers, both returned success,
\* and the storage has lost caller 1's list: it is what neither order of the
\* two calls leaves.
WitnessC6 ==
  /\ \A p \in Procs : pc[p] = "idle"
  /\ writes = 2
  /\ result[1] = WriteOK /\ result[2] = WriteOK
  /\ data[1] = [x \in {"issuing_certificates"} |-> <<"a">>]
  /\ data[2] = [x \in {"ocsp_servers"} |-> <<"a">>]
  /\ Field(store, "issuing_certificates") = <<>>
  /\ Field(store, "ocsp_servers") = <<<<"a">>>>
  /\ store # Serial(data[1], data[2])
  /\ store # Serial(data[2], data[1])

(***************************************************************************)
(* C10: in ConcSpec a write whose Get fails returns that error and ends    *)
(* with the storage unchanged; a write whose Put fails returns that error  *)
(* and leaves the storage unchanged; and every step that changes the       *)
(* storage makes it exactly the one record that the returning call passed  *)
(* to writeURLs.                                                           *)
(***************************************************************************)
C10_NoPartialPersistence ==
  [][/\ (writes' = writes + 1 /\ pc' = pc)
          => /\ store' = store
             /\ \E p \in Procs :
                  pc[p] = "idle" /\ result'[p] = [op |-> "write", ret |-> RetErr("Get")]
     /\ \A p \in Procs :
          (Returns(p) /\ result'[p].ret.kind = "err")
             => (store' = store /\ result'[p].ret = RetErr("Put"))
     /\ store' # store
          => \E p \in Procs :
               /\ Returns(p)
               /\ store' = {[Key |-> "urls",
                             Value |-> EncodeJSON(MergeFields(loaded[p], data[p]).entries)]}
    ]_vars

\* A write's Put failed while a record was stored, and the record is not the
\* one that write asked for.
WitnessC10 ==
  \E p \in Procs :
    /\ result[p] = [op |-> "write", ret |-> RetErr("Put")]
    /\ data[p] = [x \in {"ocsp_servers"} |-> <<"a">>]
    /\ Field(store, "issuing_certificates") = <<<<"a">>>>
    /\ Field(store, "ocsp_servers") = <<>>

(***************************************************************************)
(* C11: record lifecycle.                                                  *)
(***************************************************************************)
\* The steps of ConcSpec in which caller p's read call returns.  (A read that
\* changes nothing, not even p's place in fresh, is a stuttering step.)
ReadReturns(p) ==
  /\ result'[p].op = "read"
  /\ \/ result'[p] # result[p]
     \/ ops'[p] # ops[p]
     \/ (p \in fresh' /\ p \notin fresh)

\* C11: the record is never deleted: a present record stays present in every
\* step of every interleaving; a read returns "absent" only while the record
\* is absent and a record only while it is present, so once some read has
\* returned a record no later read returns "absent" (it returns the record,
\* or the error of a failed Get); and the successful write that finds the
\* record absent creates it with every specified field set to its tokens and
\* every unspecified field empty (three empty lists for a request without
\* fields).
C11_RecordLifecycle ==
  [][/\ store # {} => store' # {}
     /\ \A p \in Procs :
          ReadReturns(p) =>
            /\ result'[p].ret.kind = "nil" => store = {}
            /\ result'[p].ret.kind = "data" => store # {}
            /\ (\E q \in Procs : result[q].op = "read" /\ result[q].ret.kind = "data")
                 => result'[p].ret.kind # "nil"
     /\ \A p \in Procs :
          (Returns(p) /\ store = {} /\ result'[p] = WriteOK) =>
            /\ store' # {}
            /\ \A k \in FieldKeys :
                 Field(store', k) = IF GetOk(data[p], k) THEN Split(data[p][k])
                                    ELSE <<>>]_vars

\* A write without fields has created the record from nothing, and a read has
\* returned it: present, with three empty lists.
WitnessC11 ==
  \E p, q \in Procs :
    /\ writes = 1
    /\ data[q] = NoData
    /\ result[q] = WriteOK
    /\ store = {[Key |-> "urls", Value |-> EncodeJSON(DefaultEntries)]}
    /\ result[p] = [op |-> "read", ret |-> RetData(StructsMap(DefaultEntries))]

(***************************************************************************)
(* C12: no operation waits on another.                                     *)
(***************************************************************************)
\* What a call has issued to the storage, by where the call stands.
OpsOfCall(p) ==
  /\ pc[p] = "loaded" => ops[p] = <<"Get">>
  /\ (pc[p] = "idle" /\ result[p].op = "read") => ops[p] = <<"Get">>
  /\ (pc[p] = "idle" /\ result[p].op = "write") =>
       /\ ops[p] \in {<<"Get">>, <<"Get", "Put">>}
       /\ ops[p] = <<"Get", "Put">> <=> result[p].ret \in {RetNil, RetErr("Put")}
       /\ result[p].ret.kind = "error_response" => ops[p] = <<"Get">>

Trimmed(t) == Len(t) = 0 \/ (t[1] # " " /\ t[Len(t)] # " ")

\* C13: every token of every stored list is trimmed: no stored element
\* starts or ends with whitespace.
C13_StoredTokensTrimmed ==
  \A k \in FieldKeys :
    \A i \in 1..Len(Field(store, k)) : Trimmed(Field(store, k)[i])

(***************************************************************************)
(* C14: a read observes and changes nothing.                               *)
(***************************************************************************)
\* C14: in every step in which a read call returns, whether the record is
\* absent or present and whether or not a write call is between its Get and
\* its Put, the storage is left as it was and the call has issued one Get
\* and no Put; and reads that returned without a storage error, with no Put
\* having stored anything between them, returned the same result.
C14_ReadObserves ==
  [][/\ \A p \in Procs :
          ReadReturns(p) =>
            /\ store' = store
            /\ ops'[p] = <<"Get">>
            /\ (p \in fresh /\ result'[p].ret.kind # "err")
                 => result'[p].ret = result[p].ret
     /\ \A p, q \in fresh' : result'[p].ret = result'[q].ret]_vars

\* A read has returned the record while a write call was between its Get and
\* its Put.
WitnessC14 ==
  \E p, q \in Procs :
    /\ pc[q] = "loaded"
    /\ p \in fresh
    /\ result[p].op = "read"
    /\ result[p].ret.kind = "data"
    /\ store # {}

\* Two callers' reads, with no Put between them, have both returned the record.
WitnessC14_TwoReads ==
  /\ fresh = Procs
  /\ \A p \in Procs : result[p].op = "read" /\ result[p].ret.kind = "data"

(***************************************************************************)
(* C15: the stored CRL list always parses.                                 *)
(***************************************************************************)
\* C15: starting from an absent record, under every interleaving of write
\* calls, the stored crl_distribution_points list and the list every write
\* call has loaded hold only elements that url.Parse accepts; so a write call
\* returns a validation error only for a request that specifies
\* crl_distribution_points with an unparseable token, the error names that
\* field and that token, and a write call whose request omits the field
\* never returns a validation error.
C15_CRLAlwaysParses ==
  [][/\ ~HasBad(Field(store, "crl_distribution_points"))
     /\ ~HasBad(Field(store', "crl_distribution_points"))
     /\ \A p \in Procs :
          /\ ~HasBad(LoadedField(loaded'[p], "crl_distribution_points"))
          /\ (Returns(p) /\ result'[p].ret.kind = "error_response") =>
               /\ GetOk(data[p], "crl_distribution_points")
               /\ HasBad(Split(data[p]["crl_distribution_points"]))
               /\ result'[p].ret =
                    ErrorResponse("CRL distribution points",
                                  FirstBad(Split(data[p]["crl_distribution_points"])))
          /\ (Returns(p) /\ ~GetOk(data[p], "crl_distribution_points")) =>
               result'[p].ret.kind # "error_response"]_vars

\* One write call has stored an unparseable issuing certificate URL without
\* specifying the CRL field and returned no error, and another, specifying
\* an unparseable CRL URL, has returned the validation error.
WitnessC15 ==
  \E p, q \in Procs :
    /\ p # q
    /\ result[p] = [op |-> "write",
                    ret |-> ErrorResponse("CRL distribution points", <<":">>)]
    /\ DOMAIN data[q] = {"issuing_certificates"}
    /\ data[q]["issuing_certificates"] = <<":">>
    /\ result[q] = WriteOK
    /\ Field(store, "issuing_certificates") = << <<":">> >>
    /\ ~HasBad(Field(store, "crl_distribution_points"))

=============================================================================
